---- MODULE Spec2Model ----
(***************************************************************************)
(* generate_remaining_issues.py: main() walks the two ordered dictionaries *)
(* MEDIUM_ISSUES and LOW_ISSUES, and create_issue_file() renders one       *)
(* record through an f-string template and writes it to                    *)
(* .github/issues/<id>.md.                                                 *)
(*                                                                         *)
(* A text (a Python str) is the sequence of its lines, i.e. the result of  *)
(* str.split("\n"): never empty, "" is <<"">>, "a\n" is <<"a", "">>.       *)
(* Python's exceptions are records [type, arg].  The two emoji of the      *)
(* source are written as ASCII names, since the module is ASCII.           *)
(***************************************************************************)
EXTENDS Naturals, Sequences, FiniteSets, TLC

VARIABLES
    MEDIUM_ISSUES,  \* lines 6-510: ordered dict, a sequence of [id, data]
    LOW_ISSUES,     \* lines 512-597: ordered dict, a sequence of [id, data]
    dir,            \* the directory .github/issues of line 621: "missing",
                    \* "readonly" or "writable"; the program never changes it
    fs,             \* the files of that directory: path -> text
    prior,          \* fs when the current run (or call) started
    previous,       \* [n, fs]: the runs of main completed before this one,
                    \* and fs when the last of them ended
    pc,             \* where main / create_issue_file stands: "main" (between
                    \* two iterations), "call", "open", "write", "exit",
                    \* "done", "returned", "failed" (uncaught exception)
    caller,         \* "main", or "direct" for create_issue_file called alone
    frame,          \* create_issue_file's arguments and locals (lines 599-621)
    handles,        \* paths with an open file object (f of line 622)
    opened,         \* paths open() succeeded on in the current run
    created,        \* main's list 'created' (line 629)
    stdout,         \* lines printed by the current run (lines 641-643)
    exc,            \* the exception in flight, or the one that ended the run
    runs            \* how many times main has been started

vars == <<MEDIUM_ISSUES, LOW_ISSUES, dir, fs, prior, previous, pc, caller, frame,
          handles, opened, created, stdout, exc, runs>>

-----------------------------------------------------------------------------
(* Bounds of the model *)

\* records in MEDIUM_ISSUES and LOW_ISSUES together
MaxIssues == 3
\* times main is run on the same directory
MaxRuns == 2
\* whole lines that may have reached the disk when a write fails
MaxPartial == 1

-----------------------------------------------------------------------------
(* Texts *)

Empty == <<"">>

\* string concatenation a + b
Cat(a, b) == SubSeq(a, 1, Len(a) - 1) \o <<a[Len(a)] \o b[1]>> \o Tail(b)

RECURSIVE CatAll(_)
CatAll(parts) ==
    IF Len(parts) = 0 THEN Empty ELSE Cat(parts[1], CatAll(Tail(parts)))

\* number of lines of doc equal to line
Count(doc, line) == Cardinality({i \in 1..Len(doc) : doc[i] = line})

\* index of the first line of doc after position from that equals line, 0 if none
FirstAfter(doc, line, from) ==
    LET hits == {i \in (from + 1)..Len(doc) : doc[i] = line}
    IN  IF hits = {} THEN 0 ELSE CHOOSE i \in hits : \A j \in hits : i <= j

-----------------------------------------------------------------------------
(* create_issue_file: the template *)

priority_emoji == [MED |-> ":yellow_circle:", LOW |-> ":green_circle:"]
priority_name_Swapped == [MED |-> "Low", LOW |-> "Medium"]

priority_name == [MED |-> "Medium", LOW |-> "Low"]

Fields == {"title", "summary", "implementation", "criteria", "effort"}

\* the subscriptions of the f-string, in evaluation order
Lookups == <<"title", "priority_emoji", "priority_name", "summary",
             "implementation", "criteria", "effort">>

Defined(issue_data, priority, l) ==
    CASE l = "priority_emoji" -> priority \in DOMAIN priority_emoji
      [] l = "priority_name" -> priority \in DOMAIN priority_name
      [] OTHER -> l \in DOMAIN issue_data

\* the key of the first subscription that raises KeyError, "" when none does
MissingKey(issue_data, priority) ==
    LET bad == {i \in 1..Len(Lookups) : ~Defined(issue_data, priority, Lookups[i])}
        i0 == CHOOSE i \in bad : \A j \in bad : i <= j
    IN  IF bad = {} THEN ""
        ELSE IF Lookups[i0] \in {"priority_emoji", "priority_name"} THEN priority
        ELSE Lookups[i0]

Template_NoBlank(issue_data, priority) ==
    CatAll(<< <<"# ">>, issue_data["title"],
              <<"", "", "## ">>, <<priority_emoji[priority]>>, <<" ">>,
              <<priority_name[priority]>>, <<" Priority", "", "### Summary", "">>,
              issue_data["summary"], <<"", "### Implementation", "">>,
              issue_data["implementation"], <<"", "### Acceptance Criteria", "">>,
              issue_data["criteria"], <<"", "### Estimated Effort", "">>,
              issue_data["effort"], <<"", "">> >>)

Template_Swapped(issue_data, priority) ==
    CatAll(<< <<"# ">>, issue_data["title"],
              <<"", "", "## ">>, <<priority_emoji[priority]>>, <<" ">>,
              <<priority_name[priority]>>, <<" Priority", "", "### Implementation", "">>,
              issue_data["implementation"], <<"", "", "### Summary", "">>,
              issue_data["summary"], <<"", "", "### Acceptance Criteria", "">>,
              issue_data["criteria"], <<"", "", "### Estimated Effort", "">>,
              issue_data["effort"], <<"", "">> >>)

\* the f-string of lines 604-619
Template(issue_data, priority) ==
    CatAll(<< <<"# ">>, issue_data["title"],
              <<"", "", "## ">>, <<priority_emoji[priority]>>, <<" ">>,
              <<priority_name[priority]>>, <<" Priority", "", "### Summary", "">>,
              issue_data["summary"], <<"", "", "### Implementation", "">>,
              issue_data["implementation"], <<"", "", "### Acceptance Criteria", "">>,
              issue_data["criteria"], <<"", "", "### Estimated Effort", "">>,
              issue_data["effort"], <<"", "">> >>)

Render_FieldGet(issue_data, priority) ==
    LET d == [f \in Fields |-> IF f \in DOMAIN issue_data THEN issue_data[f] ELSE Empty]
    IN  IF priority \in DOMAIN priority_name
        THEN [ok |-> TRUE, content |-> Template(d, priority), key |-> ""]
        ELSE [ok |-> FALSE, content |-> Empty, key |-> priority]

Render_Defaulting(issue_data, priority) ==
    LET d == [f \in Fields |-> IF f \in DOMAIN issue_data THEN issue_data[f] ELSE Empty]
        p == IF priority \in DOMAIN priority_name THEN priority ELSE "MED"
    IN  [ok |-> TRUE, content |-> Template(d, p), key |-> ""]

\* content = f"""...""": the document, or the KeyError of a failed subscription
Render(issue_data, priority) ==
    LET k == MissingKey(issue_data, priority)
    IN  IF k = "" THEN [ok |-> TRUE, content |-> Template(issue_data, priority), key |-> ""]
        ELSE [ok |-> FALSE, content |-> Empty, key |-> k]

Filename_Fixed(issue_id) == ".github/issues/issue.md"

Filename_ByPriority(issue_id) ==
    ".github/issues/" \o (IF issue_id \in {"MED-001", "MED-002", "MED-003", "MED-004"}
                           THEN "MED" ELSE "LOW") \o ".md"

\* filename = f".github/issues/{issue_id}.md"
Filename(issue_id) == ".github/issues/" \o issue_id \o ".md"

-----------------------------------------------------------------------------
(* The file system under open(filename, 'w') *)

NoExc == [type |-> "None", arg |-> ""]
KeyError(k) == [type |-> "KeyError", arg |-> k]
OSErrorOf(t, f) == [type |-> t, arg |-> f]

\* IOError is OSError; FileNotFoundError and PermissionError are its subclasses
IsIOError(e) == e.type \in {"OSError", "FileNotFoundError", "PermissionError"}

OpenResult_Makedirs(d, exists) ==
    IF d = "readonly" /\ ~exists THEN "PermissionError" ELSE "ok"

\* open(filename, 'w') in directory state d, the file existing or not: a
\* missing directory is ENOENT; creating a file needs write access to the
\* directory, truncating an existing one does not
OpenResult(d, exists) ==
    CASE d = "missing" -> "FileNotFoundError"
      [] d = "readonly" /\ ~exists -> "PermissionError"
      [] OTHER -> "ok"

Truncated_Append(old) == old

\* mode 'w': the file is created empty or truncated to length 0
Truncated(old) == Empty

FsPut(f, p, text) == [q \in (DOMAIN f) \cup {p} |-> IF q = p THEN text ELSE f[q]]

HandlesAfterExit_NoFinally(h, f, raised) == IF raised THEN h ELSE h \ {f}

\* the with statement's __exit__: f.close(), an exception pending or not
HandlesAfterExit(h, f, raised) == h \ {f}

\* what a failed f.write leaves behind of content: n whole lines
Partial(content, n) == SubSeq(content, 1, n) \o <<"">>

-----------------------------------------------------------------------------
(* main's bookkeeping *)

CreatedAfter_Prepend(c, filename) == <<filename>> \o c

\* created.append(filename)
CreatedAfter(c, filename) == Append(c, filename)

\* print(f"... Created {len(created)} issue files:"); print(f"  - {f}") for each
ReportLines(c) ==
    <<":check: Created " \o ToString(Len(c)) \o " issue files:">>
    \o [i \in 1..Len(c) |-> "  - " \o c[i]]

\* the records in the order main visits them, each with the priority it passes
Calls(M, L) ==
    [i \in 1..Len(M) |-> [issue_id |-> M[i].id, issue_data |-> M[i].data, priority |-> "MED"]]
    \o [i \in 1..Len(L) |-> [issue_id |-> L[i].id, issue_data |-> L[i].data, priority |-> "LOW"]]

NoFrame == [issue_id |-> "", issue_data |-> <<>>, priority |-> "", content |-> Empty,
            filename |-> ""]

-----------------------------------------------------------------------------
(* Inputs *)

MedIds == <<"MED-001", "MED-002", "MED-003", "MED-004">>
LowIds == <<"LOW-001", "LOW-002", "LOW-003", "LOW-004">>

\* MED-002, its implementation and criteria cut to their first lines (and
\* without the code fence, whose character a string of this module cannot hold)
Base ==
    [title |-> <<"Create Reusable LoadingSpinner Component">>,
     summary |-> <<"Loading spinner markup duplicated in 10+ files.">>,
     implementation |-> <<"// components/ui/loading-spinner.tsx",
                          "interface LoadingSpinnerProps {", "}">>,
     criteria |-> <<"- [ ] Create LoadingSpinner component", "- [ ] Support size variants">>,
     effort |-> <<"1-2 hours">>]

With(f, text) == [Base EXCEPT ![f] = text]
Without(f) == [g \in Fields \ {f} |-> Base[g]]

\* field values: plain, empty, ending in a newline, with a blank line, and
\* with lines that read like the template's own
FieldTexts ==
    {<<"x">>, Empty, <<"x", "">>, <<"a", "", "b">>,
     <<"x", "", "### Summary", "y">>,
     <<"x", "", "### Implementation", "y">>,
     <<"x", "", "### Acceptance Criteria", "y">>,
     <<"x", "", "### Estimated Effort", "y">>,
     <<"x", "", "## :yellow_circle: Medium Priority">>,
     <<"x", "# Create Reusable LoadingSpinner Component">>}

\* the records create_issue_file is called with directly
Records ==
    {Base} \cup {With(f, t) : f \in Fields, t \in FieldTexts}
           \cup {Without(f) : f \in Fields}
           \cup {[g \in {"title"} |-> Base[g]]}

Priorities == {"MED", "LOW", "HIGH"}

\* the records of the catalogs main runs on
CatalogRecords ==
    {Base, With("summary", <<"a", "", "b">>),
     [g \in {"title", "summary", "effort"} |-> Base[g]]}

RECURSIVE SeqsOf(_, _)
SeqsOf(S, n) ==
    IF n = 0 THEN {<<>>}
    ELSE LET shorter == SeqsOf(S, n - 1)
         IN  shorter \cup {Append(s, x) : s \in {t \in shorter : Len(t) = n - 1}, x \in S}

Dict(ids, recs) == [i \in 1..Len(recs) |-> [id |-> ids[i], data |-> recs[i]]]

Old == <<"old", "">>

\* the directory and the files in it before the program runs: a missing
\* directory holds no file; otherwise any of the paths may hold old content
Worlds(paths) ==
    {[dir |-> "missing", fs |-> <<>>]}
    \cup {[dir |-> d, fs |-> [p \in E |-> Old]] :
            d \in {"readonly", "writable"}, E \in SUBSET paths}

-----------------------------------------------------------------------------
(* main *)

\* the catalogs (ids unique across both, as in the source), the directory
\* and its files when main starts
Init ==
    \E ms \in SeqsOf(CatalogRecords, MaxIssues), ls \in SeqsOf(CatalogRecords, MaxIssues) :
        /\ Len(ms) + Len(ls) <= MaxIssues
        /\ MEDIUM_ISSUES = Dict(MedIds, ms)
        /\ LOW_ISSUES = Dict(LowIds, ls)
        /\ \E w \in Worlds({Filename(MedIds[i]) : i \in 1..Len(ms)}
                           \cup {Filename(LowIds[i]) : i \in 1..Len(ls)}) :
              /\ dir = w.dir
              /\ fs = w.fs
              /\ prior = w.fs
              /\ previous = [n |-> 0, fs |-> w.fs]
        /\ pc = "main"
        /\ caller = "main"
        /\ frame = NoFrame
        /\ handles = {}
        /\ opened = {}
        /\ created = <<>>
        /\ stdout = <<>>
        /\ exc = NoExc
        /\ runs = 1

\* the body of create_issue_file up to the with statement (lines 601-621)
Enter(issue_id, issue_data, priority) ==
    LET r == Render(issue_data, priority)
    IN  /\ frame' = [issue_id |-> issue_id, issue_data |-> issue_data,
                     priority |-> priority, content |-> r.content,
                     filename |-> IF r.ok THEN Filename(issue_id) ELSE ""]
        /\ pc' = IF r.ok THEN "open" ELSE "failed"
        /\ exc' = IF r.ok THEN NoExc ELSE KeyError(r.key)
        /\ UNCHANGED <<MEDIUM_ISSUES, LOW_ISSUES, dir, fs, prior, previous, caller,
                       handles, opened, created, stdout, runs>>

\* for issue_id, data in MEDIUM_ISSUES.items(): create_issue_file(issue_id, data, "MED")
MediumLoop ==
    /\ pc = "main"
    /\ Len(created) < Len(MEDIUM_ISSUES)
    /\ LET item == MEDIUM_ISSUES[Len(created) + 1]
       IN  Enter(item.id, item.data, "MED")

\* for issue_id, data in LOW_ISSUES.items(): create_issue_file(issue_id, data, "LOW")
LowLoop ==
    /\ pc = "main"
    /\ Len(created) >= Len(MEDIUM_ISSUES)
    /\ Len(created) < Len(MEDIUM_ISSUES) + Len(LOW_ISSUES)
    /\ LET item == LOW_ISSUES[Len(created) - Len(MEDIUM_ISSUES) + 1]
       IN  Enter(item.id, item.data, "LOW")

\* a call of create_issue_file with the arguments of frame
DirectCall ==
    /\ pc = "call"
    /\ Enter(frame.issue_id, frame.issue_data, frame.priority)

\* with open(filename, 'w') as f:
Open ==
    /\ pc = "open"
    /\ LET f == frame.filename
           res == OpenResult(dir, f \in DOMAIN fs)
       IN  IF res = "ok"
           THEN /\ fs' = FsPut(fs, f, Truncated(IF f \in DOMAIN fs THEN fs[f] ELSE Empty))
                /\ handles' = handles \cup {f}
                /\ opened' = opened \cup {f}
                /\ pc' = "write"
                /\ UNCHANGED exc
           ELSE /\ exc' = OSErrorOf(res, f)
                /\ pc' = "failed"
                /\ UNCHANGED <<fs, handles, opened>>
    /\ UNCHANGED <<MEDIUM_ISSUES, LOW_ISSUES, dir, prior, previous, caller, frame,
                   created, stdout, runs>>

\* f.write(content), all of it reaching the file
WriteOk ==
    /\ pc = "write"
    /\ fs' = FsPut(fs, frame.filename, Cat(fs[frame.filename], frame.content))
    /\ pc' = "exit"
    /\ UNCHANGED <<MEDIUM_ISSUES, LOW_ISSUES, dir, prior, previous, caller, frame,
                   handles, opened, created, stdout, exc, runs>>

\* f.write(content) failing (disk full, I/O error) after part of it was written
WriteFail ==
    /\ pc = "write"
    /\ \E n \in 0..MaxPartial :
          /\ n < Len(frame.content)
          /\ fs' = FsPut(fs, frame.filename,
                         Cat(fs[frame.filename], Partial(frame.content, n)))
    /\ exc' = OSErrorOf("OSError", frame.filename)
    /\ pc' = "exit"
    /\ UNCHANGED <<MEDIUM_ISSUES, LOW_ISSUES, dir, prior, previous, caller, frame,
                   handles, opened, created, stdout, runs>>

Exit_AppendAlways ==
    /\ pc = "exit"
    /\ handles' = HandlesAfterExit(handles, frame.filename, exc # NoExc)
    /\ pc' = IF exc # NoExc THEN "failed" ELSE IF caller = "main" THEN "main" ELSE "returned"
    /\ created' = IF caller = "main" THEN CreatedAfter(created, frame.filename) ELSE created
    /\ UNCHANGED <<MEDIUM_ISSUES, LOW_ISSUES, dir, fs, prior, previous, caller, frame,
                   opened, stdout, exc, runs>>

\* leaving the with block: the file is closed; then either the exception
\* propagates out of create_issue_file and main, or 'return filename' and
\* main's created.append(filename)
Exit ==
    /\ pc = "exit"
    /\ handles' = HandlesAfterExit(handles, frame.filename, exc # NoExc)
    /\ IF exc # NoExc
       THEN /\ pc' = "failed"
            /\ UNCHANGED created
       ELSE IF caller = "main"
       THEN /\ pc' = "main"
            /\ created' = CreatedAfter(created, frame.filename)
       ELSE /\ pc' = "returned"
            /\ UNCHANGED created
    /\ UNCHANGED <<MEDIUM_ISSUES, LOW_ISSUES, dir, fs, prior, previous, caller, frame,
                   opened, stdout, exc, runs>>

Report_AfterMedium ==
    /\ pc = "main"
    /\ Len(created) >= Len(MEDIUM_ISSUES)
    /\ stdout' = ReportLines(created)
    /\ pc' = "done"
    /\ UNCHANGED <<MEDIUM_ISSUES, LOW_ISSUES, dir, fs, prior, previous, caller, frame,
                   handles, opened, created, exc, runs>>

\* both loops are over: the two print statements of lines 641-643
Report ==
    /\ pc = "main"
    /\ Len(created) >= Len(MEDIUM_ISSUES) + Len(LOW_ISSUES)
    /\ stdout' = ReportLines(created)
    /\ pc' = "done"
    /\ UNCHANGED <<MEDIUM_ISSUES, LOW_ISSUES, dir, fs, prior, previous, caller, frame,
                   handles, opened, created, exc, runs>>

\* the script is started again on the same directory after a completed run
Rerun ==
    /\ pc = "done"
    /\ runs < MaxRuns
    /\ runs' = runs + 1
    /\ prior' = fs
    /\ pc' = "main"
    /\ frame' = NoFrame
    /\ handles' = {}
    /\ opened' = {}
    /\ created' = <<>>
    /\ stdout' = <<>>
    /\ exc' = NoExc
    /\ previous' = [n |-> previous.n + 1, fs |-> fs]
    /\ UNCHANGED <<MEDIUM_ISSUES, LOW_ISSUES, dir, fs, caller>>

Next == MediumLoop \/ LowLoop \/ Open \/ WriteOk \/ WriteFail \/ Exit \/ Report \/ Rerun

Spec == Init /\ [][Next]_vars

-----------------------------------------------------------------------------
(* create_issue_file called on its own, with any record and priority *)

InitCall ==
    \E id \in {MedIds[1], LowIds[1]}, data \in Records, p \in Priorities :
        /\ MEDIUM_ISSUES = <<>>
        /\ LOW_ISSUES = <<>>
        /\ \E w \in Worlds({Filename(id)}) :
              /\ dir = w.dir
              /\ fs = w.fs
              /\ prior = w.fs
              /\ previous = [n |-> 0, fs |-> w.fs]
        /\ pc = "call"
        /\ caller = "direct"
        /\ frame = [issue_id |-> id, issue_data |-> data, priority |-> p,
                    content |-> Empty, filename |-> ""]
        /\ handles = {}
        /\ opened = {}
        /\ created = <<>>
        /\ stdout = <<>>
        /\ exc = NoExc
        /\ runs = 1

NextCall == DirectCall \/ Open \/ WriteOk \/ WriteFail \/ Exit

SpecCall == InitCall /\ [][NextCall]_vars

-----------------------------------------------------------------------------
(* Properties of main (specification Spec) *)

\* the calls main makes, in order, and what each is expected to leave behind
AllCalls == Calls(MEDIUM_ISSUES, LOW_ISSUES)
N == Len(AllCalls)
ExpectedPath(i) == ".github/issues/" \o AllCalls[i].issue_id \o ".md"
ExpectedDoc(i) == Template(AllCalls[i].issue_data, AllCalls[i].priority)

\* C1: a run of main that completes on a catalog of N records has opened
\* exactly N files, the paths .github/issues/<id>.md of its records; each
\* holds the document of its own record, and the directory holds no file
\* beyond those it held before and these N.
C1_OneFilePerRecord ==
    (caller = "main" /\ pc = "done") =>
        /\ Cardinality(opened) = N
        /\ opened = {ExpectedPath(i) : i \in 1..N}
        /\ \A i \in 1..N :
              /\ ExpectedPath(i) \in DOMAIN fs
              /\ fs[ExpectedPath(i)] = ExpectedDoc(i)
        /\ DOMAIN fs = (DOMAIN prior) \cup opened

C1_Witness ==
    /\ caller = "main"
    /\ pc = "done"
    /\ Len(MEDIUM_ISSUES) >= 2
    /\ Len(LOW_ISSUES) >= 1
    /\ ExpectedDoc(1) # ExpectedDoc(2)
    /\ \E i \in 1..N : ExpectedPath(i) \notin DOMAIN prior

\* C2: when a run of main completes after an earlier completed run, the
\* files are exactly what they were when the earlier run completed.
C2_Idempotent ==
    (caller = "main" /\ pc = "done" /\ previous.n >= 1) => fs = previous.fs

C2_Witness ==
    /\ caller = "main"
    /\ pc = "done"
    /\ previous.n >= 1
    /\ N >= 2
    /\ Cardinality(opened) = N
    /\ fs = previous.fs

\* C4: when open or write fails with an IOError at the k-th record, the
\* files of the k-1 records before it are in place, each holding its
\* record's whole document, and the error names the k-th record's path.
C4_NoRollback ==
    (caller = "main" /\ pc = "failed" /\ IsIOError(exc)) =>
        /\ Len(created) < N
        /\ exc.arg = ExpectedPath(Len(created) + 1)
        /\ \A i \in 1..Len(created) :
              /\ ExpectedPath(i) \in DOMAIN fs
              /\ fs[ExpectedPath(i)] = ExpectedDoc(i)

C4_Witness ==
    /\ caller = "main"
    /\ pc = "failed"
    /\ exc.type = "OSError"
    /\ Len(created) >= 2
    /\ fs[ExpectedPath(3)] # ExpectedDoc(3)
    /\ fs[ExpectedPath(1)] = ExpectedDoc(1)
    /\ fs[ExpectedPath(2)] = ExpectedDoc(2)

\* C7: a completed run prints the count line and then one line per record,
\* in catalog order (MEDIUM_ISSUES then LOW_ISSUES, each in dictionary
\* order); the paths listed are the files written, each once, and the count
\* is their number.
C7_ReportInCatalogOrder ==
    (caller = "main" /\ pc = "done") =>
        /\ created = [i \in 1..N |-> ExpectedPath(i)]
        /\ \A i, j \in 1..Len(created) : created[i] = created[j] => i = j
        /\ {created[i] : i \in 1..Len(created)} = opened
        /\ stdout = <<":check: Created " \o ToString(Cardinality(opened)) \o " issue files:">>
                    \o [i \in 1..N |-> "  - " \o ExpectedPath(i)]

C7_Witness ==
    /\ caller = "main"
    /\ pc = "done"
    /\ Len(MEDIUM_ISSUES) >= 2
    /\ Len(LOW_ISSUES) >= 1
    /\ Len(stdout) = 4

\* C8: a file object is open only between open() and the end of the with
\* block, and it is the current record's; after create_issue_file returned
\* or raised none is open, so at most one is open at any time; and a write
\* that did not fail has put the whole document in the file.
C8_HandleReleased ==
    /\ Cardinality(handles) <= 1
    /\ handles # {} => (pc \in {"write", "exit"} /\ handles = {frame.filename})
    /\ pc \in {"write", "exit"} => handles = {frame.filename}
    /\ (pc = "exit" /\ exc = NoExc) => fs[frame.filename] = frame.content

C8_Witness ==
    /\ caller = "main"
    /\ pc = "failed"
    /\ exc.type = "OSError"
    /\ handles = {}
    /\ Len(created) >= 1
    /\ frame.filename \in opened

\* the required fields in the order the template subscripts them
FieldOrder == <<"title", "summary", "implementation", "criteria", "effort">>
Incomplete(data) == \E f \in Fields : f \notin DOMAIN data
FirstMissingField(data) ==
    FieldOrder[CHOOSE i \in 1..Len(FieldOrder) :
                  /\ FieldOrder[i] \notin DOMAIN data
                  /\ \A j \in 1..(i - 1) : FieldOrder[j] \in DOMAIN data]

\* what main may have touched of the file at path p
Untouched(p) ==
    /\ p \notin opened
    /\ p \in DOMAIN fs <=> p \in DOMAIN prior
    /\ p \in DOMAIN fs => fs[p] = prior[p]

C10_Original ==
    (/\ caller = "main"
     /\ pc = "failed"
     /\ ~IsIOError(exc)
     /\ Incomplete(AllCalls[Len(created) + 1].issue_data)) =>
        exc.type = "ConfigurationError"

\* C10, amended: the error is Python's KeyError, naming the first missing
\* field in template order.  For every record k with a required field
\* missing: main never gets past it, never opens a file for it, leaves the
\* files of k and of every later record as they were, and prints nothing;
\* a run that reaches k ends there with that KeyError.
C10_MissingFieldAborts ==
    caller = "main" =>
        \A k \in 1..N :
            Incomplete(AllCalls[k].issue_data) =>
                /\ Len(created) < k
                /\ pc # "done"
                /\ stdout = <<>>
                /\ \A j \in k..N : Untouched(ExpectedPath(j))
                /\ Len(created) = k - 1 =>
                      /\ pc \in {"main", "failed"}
                      /\ pc = "failed" =>
                            exc = KeyError(FirstMissingField(AllCalls[k].issue_data))

C10_Witness ==
    /\ caller = "main"
    /\ pc = "failed"
    /\ exc = KeyError("implementation")
    /\ Len(created) >= 1
    /\ N > Len(created) + 1
    /\ fs[ExpectedPath(1)] = ExpectedDoc(1)
    /\ ExpectedPath(N) \in DOMAIN fs

-----------------------------------------------------------------------------
(* Properties of create_issue_file (specification SpecCall) *)

\* the call under SpecCall has rendered its document
Rendered == caller = "direct" /\ frame.filename # ""

TitleLine(data) == "# " \o data["title"][1]
PriorityLine(p) ==
    IF p = "MED" THEN "## :yellow_circle: Medium Priority"
    ELSE "## :green_circle: Low Priority"
SectionHeaders ==
    <<"### Summary", "### Implementation", "### Acceptance Criteria",
      "### Estimated Effort">>
Landmarks(data, p) == <<TitleLine(data), PriorityLine(p)>> \o SectionHeaders

\* each line of marks is a line of doc exactly once, and they come in order
RECURSIVE InOrder(_, _, _)
InOrder(doc, marks, from) ==
    IF Len(marks) = 0 THEN TRUE
    ELSE LET at == FirstAfter(doc, marks[1], from)
         IN  at > 0 /\ InOrder(doc, Tail(marks), at)
InOrderOnce(doc, marks) ==
    /\ \A i \in 1..Len(marks) : Count(doc, marks[i]) = 1
    /\ InOrder(doc, marks, 0)

\* the lines a record's fields put into the document as lines of their own:
\* all but the first line of the title, which follows "# "
FieldLines(data) ==
    UNION {{data[f][i] : i \in (IF f = "title" THEN 2 ELSE 1)..Len(data[f])} :
             f \in DOMAIN data}

\* C5 as stated: every rendered document has the six lines once each, in order.
C5_Original ==
    Rendered => InOrderOnce(frame.content, Landmarks(frame.issue_data, frame.priority))

\* C5, amended: the document of a record none of whose field lines is itself
\* the title line, the priority line or a section header starts with the
\* title line and has the title line, the priority line and the four
\* section headers once each, in this order.
C5_SectionsInOrder ==
    (/\ Rendered
     /\ \A i \in 1..6 :
           Landmarks(frame.issue_data, frame.priority)[i] \notin FieldLines(frame.issue_data)) =>
        /\ frame.content[1] = TitleLine(frame.issue_data)
        /\ InOrderOnce(frame.content, Landmarks(frame.issue_data, frame.priority))

C5_Witness ==
    /\ Rendered
    /\ pc = "returned"
    /\ frame.priority = "LOW"
    /\ Len(frame.issue_data["implementation"]) >= 3
    /\ "" \in FieldLines(frame.issue_data)
    /\ InOrderOnce(frame.content, Landmarks(frame.issue_data, frame.priority))

\* reading a document back by its section headers: a section's text is what
\* lies between the line after its header and the blank line before the next
\* header (for the last one, the newline that ends the document)
Parse(doc) ==
    LET s == FirstAfter(doc, SectionHeaders[1], 0)
        i == FirstAfter(doc, SectionHeaders[2], s)
        c == FirstAfter(doc, SectionHeaders[3], i)
        e == FirstAfter(doc, SectionHeaders[4], c)
    IN  IF s = 0 \/ i = 0 \/ c = 0 \/ e = 0 THEN [ok |-> FALSE]
        ELSE [ok |-> TRUE,
              summary |-> SubSeq(doc, s + 1, i - 2),
              implementation |-> SubSeq(doc, i + 1, c - 2),
              criteria |-> SubSeq(doc, c + 1, e - 2),
              effort |-> SubSeq(doc, e + 1, Len(doc) - 1)]

RoundTrips(doc, data) ==
    Parse(doc) = [ok |-> TRUE, summary |-> data["summary"],
                  implementation |-> data["implementation"],
                  criteria |-> data["criteria"], effort |-> data["effort"]]

\* C6 as stated: every rendered document parses back to its record's fields.
C6_Original == Rendered => RoundTrips(frame.content, frame.issue_data)

\* C6, amended: the document of a record none of whose field lines is itself
\* a section header parses back to the record's summary, implementation,
\* criteria and effort, line for line.
C6_RoundTrip ==
    (/\ Rendered
     /\ \A i \in 1..4 : SectionHeaders[i] \notin FieldLines(frame.issue_data)) =>
        RoundTrips(frame.content, frame.issue_data)

C6_Witness ==
    /\ Rendered
    /\ pc = "returned"
    /\ frame.issue_data["summary"] = <<"x", "">>
    /\ RoundTrips(frame.content, frame.issue_data)
    /\ fs[frame.filename] = frame.content

-----------------------------------------------------------------------------
(* Further properties of main (specification Spec) *)

\* the line of a document that follows its title and one blank line
PriorityLineOf(doc, data) == doc[Len(data["title"]) + 2]

\* the document has the title as its first line and, as its priority line,
\* the line of the given label and of no other
Presents(doc, data, line, other) ==
    /\ doc[1] = "# " \o data["title"][1]
    /\ PriorityLineOf(doc, data) = line
    /\ Count(doc, other) = 0

\* C11: the document main has rendered or written for a record of
\* MEDIUM_ISSUES starts with "# <title>" and has the priority line of label
\* "Medium"; that of a record of LOW_ISSUES has the priority line of label
\* "Low"; neither has the other catalog's priority line.
C11_OwnCatalogPriority ==
    caller = "main" =>
        /\ \A i \in 1..Len(created) :
              LET doc == fs[ExpectedPath(i)]
                  data == AllCalls[i].issue_data
              IN  IF i <= Len(MEDIUM_ISSUES)
                  THEN Presents(doc, data, "## :yellow_circle: Medium Priority",
                                "## :green_circle: Low Priority")
                  ELSE Presents(doc, data, "## :green_circle: Low Priority",
                                "## :yellow_circle: Medium Priority")
        /\ pc \in {"open", "write", "exit"} =>
              IF Len(created) < Len(MEDIUM_ISSUES)
              THEN Presents(frame.content, frame.issue_data,
                            "## :yellow_circle: Medium Priority",
                            "## :green_circle: Low Priority")
              ELSE Presents(frame.content, frame.issue_data,
                            "## :green_circle: Low Priority",
                            "## :yellow_circle: Medium Priority")

C11_Witness ==
    /\ caller = "main"
    /\ pc = "done"
    /\ Len(MEDIUM_ISSUES) = 2
    /\ Len(LOW_ISSUES) = 1
    /\ MEDIUM_ISSUES[2] = [id |-> "MED-002", data |-> Base]
    /\ fs[".github/issues/MED-002.md"][1] = "# Create Reusable LoadingSpinner Component"
    /\ fs[".github/issues/MED-002.md"][3] = "## :yellow_circle: Medium Priority"
    /\ fs[".github/issues/LOW-001.md"][3] = "## :green_circle: Low Priority"

\* the paths of the first k records in catalog order
PrefixPaths(k) == {ExpectedPath(i) : i \in 1..k}

\* the files main has written in this run: those it opened, but for the file
\* of a call of create_issue_file that has not returned or that raised
Written ==
    opened \ (IF pc \in {"write", "exit", "failed"} THEN {frame.filename} ELSE {})

\* C12: in every state of a run, failed or not, the files written so far
\* are the files of the first Len(created) records of MEDIUM_ISSUES followed
\* by LOW_ISSUES, each holding its record's document, and 'created' lists
\* their paths in that order; beyond them only the file of the record whose
\* call is under way or has raised may have been opened; so no file of a
\* LOW record is opened before every MEDIUM record is in 'created'.
C12_PrefixWritten ==
    caller = "main" =>
        /\ Len(created) <= N
        /\ created = [i \in 1..Len(created) |-> ExpectedPath(i)]
        /\ Written = PrefixPaths(Len(created))
        /\ \A i \in 1..Len(created) : fs[ExpectedPath(i)] = ExpectedDoc(i)
        /\ opened # Written =>
              /\ Len(created) < N
              /\ opened = PrefixPaths(Len(created) + 1)
        /\ \A j \in (Len(created) + 2)..N : Untouched(ExpectedPath(j))
        /\ \A i \in 1..Len(LOW_ISSUES) :
              Filename(LOW_ISSUES[i].id) \in opened =>
                  Len(created) >= Len(MEDIUM_ISSUES) + i - 1

C12_Witness ==
    /\ caller = "main"
    /\ pc = "failed"
    /\ Len(MEDIUM_ISSUES) = 1
    /\ Len(LOW_ISSUES) = 2
    /\ Len(created) = 2
    /\ opened = PrefixPaths(3)
    /\ Written = PrefixPaths(2)
    /\ runs = 2

\* C13: anything is printed only once every record of both catalogs has
\* been written, and then it is the count line and the path list; a run that
\* a render or a write error ended has printed nothing, although the files
\* it wrote before the error are on disk.
C13_ReportOnlyAfterAll ==
    caller = "main" =>
        /\ stdout # <<>> =>
              /\ pc = "done"
              /\ Len(created) = N
              /\ Len(stdout) = N + 1
              /\ \A i \in 1..N :
                    /\ ExpectedPath(i) \in opened
                    /\ fs[ExpectedPath(i)] = ExpectedDoc(i)
        /\ pc # "done" => stdout = <<>>
        /\ pc = "failed" =>
              /\ exc # NoExc
              /\ stdout = <<>>
              /\ \A i \in 1..Len(created) : ExpectedPath(i) \in DOMAIN fs

C13_Witness ==
    /\ caller = "main"
    /\ pc = "failed"
    /\ exc.type = "KeyError"
    /\ stdout = <<>>
    /\ Len(created) = 2
    /\ N = 3
    /\ ExpectedPath(1) \notin DOMAIN prior
    /\ fs[ExpectedPath(1)] = ExpectedDoc(1)
    /\ fs[ExpectedPath(2)] = ExpectedDoc(2)

====
